---- MODULE Spec2Model ----
(***************************************************************************)
(* Model of BoringHannover.  Four parts, each with its own variables and   *)
(* its own specification; a specification leaves the variables of the      *)
(* other parts at their idle values.                                       *)
(*                                                                         *)
(*   Spec, SpecTwice  the fetch orchestrator (aggregator.py,               *)
(*                    fetch_all_events), run once and run twice            *)
(*   EventSpec        Event construction and the window queries            *)
(*                    (models.py)                                          *)
(*   PluginSpec       the per-listing loop of the source plugins           *)
(*                    (sources/cinema, sources/concerts)                   *)
(*   RunSpec          the workflow of main.run (main.py, notifier.py,      *)
(*                    github_sync.py)                                      *)
(*   NotifySpec, ...  one call of one function at a time: its arguments    *)
(*                    and what it meets in `fn_args`, its local names in   *)
(*                    `fn_locals`, what it returned in `fn_result`         *)
(*                                                                         *)
(* Time is measured in ticks; TicksPerDay ticks make one day.  The wall    *)
(* clock is a variable that only moves forward while a run is in progress. *)
(***************************************************************************)
EXTENDS Integers, Sequences, FiniteSets, TLC

(* ---- bounds ----------------------------------------------------------- *)
NumSources == 2          \* largest registry explored
MaxEvents == 2           \* Event items the sources of one run return altogether
MaxClock == 1            \* the wall clock runs from 0 to MaxClock ticks
TicksPerDay == 2         \* resolution of one day
MOVIES_LOOKAHEAD_DAYS == 1   \* lookahead window, in days
MaxListings == 3         \* listings on the page a plugin scrapes
PageSlack == 2           \* items a source finds beyond its max_events
MaxInvalid == 1          \* items of a page that do not parse to an event
MaxRegistrations == 3    \* register_source calls while the plugins load
MaxStamp == 1            \* meta.updatedAt takes the values 1..MaxStamp
MaxSyncs == 2            \* calls of sync_to_github against one repository
MaxDay == 2              \* the days 1..MaxDay an iCalendar value can name
MaxSegments == 2         \* pieces (lines outside events, events) of an iCalendar text
MaxStart == 3            \* a Wix startDate names one of the UTC ticks 0..MaxStart
MaxPages == 2            \* pages the Prismic API holds
MaxLimit == 2            \* largest max_events of a GlockseeSource instance
MaxPad == 2              \* whitespace characters around a scraped URL

(* ---- program constants ------------------------------------------------ *)
_MAX_TITLE_LENGTH == 200
_MAX_VENUE_LENGTH == 100
_MAX_URL_LENGTH == 500
BroncosSource_max_events == 40
KulturpalastLindenSource_max_events == 60
WeltspieleSource_max_events == 30
ErhardtCafeSource_max_events == 20
FaustSource_max_events == 40
GlockseeSource_max_events == 30
MAX_URL_LENGTH == 500

(* ---- events ----------------------------------------------------------- *)
EventCategory == {"movie", "culture", "radar"}

timedelta(days) == days * TicksPerDay

\* Dates around the two ends of the window of a run that starts at tick 0.
Dates == {-1, 0, timedelta(MOVIES_LOOKAHEAD_DAYS), timedelta(MOVIES_LOOKAHEAD_DAYS) + 1}

\* The events registry entry i can produce; venue records the producer.
\* Movies take the dates from the start of the run on, radar events the
\* dates around the start of the run, culture events the dates around the
\* end of the movie window.
Event(i) ==
    {e \in [category : EventCategory, date : Dates, venue : {i}] :
        \/ e.category = "movie" /\ e.date >= 0
        \/ e.category = "radar" /\ e.date <= 0
        \/ e.category = "culture" /\ e.date > 0}

RECURSIVE SeqsUpTo(_, _)
SeqsUpTo(S, n) ==
    IF n = 0 THEN {<<>>}
    ELSE LET shorter == SeqsUpTo(S, n - 1)
         IN  shorter \cup {Append(s, e) : s \in {t \in shorter : Len(t) = n - 1}, e \in S}

\* What one registry entry does when the orchestrator handles it:
\*   init    - whether source_cls() returns or raises
\*   enabled - what reading source.enabled gives (or that it raises)
\*   fetch   - fetch() raises, returns a list of Events, or returns an
\*             iterable that yields Events and then an item that is not an
\*             Event (or raises while it is being consumed)
\*   events  - the Event items of the returned iterable, in order, at most
\*             `room` of them
\* Fields that are never looked at (the fetch of a source that cannot be
\* instantiated, say) are fixed, so that each behaviour is listed once.
Behaviour(i, room) ==
    LET B(init, enabled, fetch, events) ==
            [init |-> init, enabled |-> enabled, fetch |-> fetch, events |-> events]
    IN  {B("raises", "true", "returns", <<>>),
         B("ok", "raises", "returns", <<>>),
         B("ok", "false", "returns", <<>>),
         B("ok", "true", "raises", <<>>)}
        \cup {B("ok", "true", f, es) : f \in {"returns", "returns_junk"},
                                       es \in SeqsUpTo(Event(i), room)}

(* ---- Event.is_within_next_days --------------------------------------- *)
is_within_next_days_Exclusive(date, days, now) ==
    IF days < 0 THEN FALSE
    ELSE LET cutoff == now + timedelta(days)
         IN  now <= date /\ date < cutoff

\* `now` is the value datetime.now(BERLIN_TZ) yields inside the call; date
\* and now carry the same tzinfo, so they compare by their wall-clock fields.
is_within_next_days(date, days, now) ==
    IF days < 0 THEN FALSE
    ELSE LET cutoff == now + timedelta(days)
         IN  now <= date /\ date <= cutoff

is_this_week(date, now) == is_within_next_days(date, 7, now)

(* ---- pieces of fetch_all_events -------------------------------------- *)
Skipped_Never(enabled) == FALSE

\* if not source.enabled: continue
Skipped(enabled) == enabled = "false"

ShouldSleep(count) == count > 0

CountAfterSkip_Counted(count) == count + 1

CountAfterSkip(count) == count

CountAfterSuccess(count) == count + 1

CountAfterFailure_NotCounted(count) == count

CountAfterFailure(count) == count + 1

ExceptBranch_Propagates(count) == [raised |-> TRUE, count |-> count]

\* except Exception: the failure is logged and the loop goes on.
ExceptBranch(count) == [raised |-> FALSE, count |-> CountAfterFailure(count)]

IsMovie_NotRadar(event) == event.category # "radar"

IsMovie(event) == event.category = "movie"

RECURSIVE CategorizeMovies(_, _)
CategorizeMovies(acc, events) ==
    IF events = <<>> THEN acc
    ELSE CategorizeMovies(IF IsMovie(Head(events)) THEN Append(acc, Head(events)) ELSE acc,
                          Tail(events))

RECURSIVE CategorizeRadar(_, _)
CategorizeRadar(acc, events) ==
    IF events = <<>> THEN acc
    ELSE CategorizeRadar(IF IsMovie(Head(events)) THEN acc ELSE Append(acc, Head(events)),
                         Tail(events))

RadarKeep(event, ref) == event.date >= ref

RECURSIVE RadarFilter(_, _)
RadarFilter(events, ref) ==
    IF events = <<>> THEN <<>>
    ELSE IF RadarKeep(Head(events), ref)
         THEN <<Head(events)>> \o RadarFilter(Tail(events), ref)
         ELSE RadarFilter(Tail(events), ref)

\* sorted(..., key=lambda e: e.date): stable, ascending by date.
RECURSIVE InsertByDate(_, _)
InsertByDate(sorted, e) ==
    IF sorted = <<>> THEN <<e>>
    ELSE IF Head(sorted).date <= e.date
         THEN <<Head(sorted)>> \o InsertByDate(Tail(sorted), e)
         ELSE <<e>> \o sorted

SortByDate_Unsorted(events) == events

RECURSIVE SortByDate(_)
SortByDate(events) ==
    IF events = <<>> THEN <<>>
    ELSE InsertByDate(SortByDate(SubSeq(events, 1, Len(events) - 1)), events[Len(events)])

(* ---- state ------------------------------------------------------------ *)
VARIABLES
    pc,               \* "start", "loop", "filter", "done", "raised"
    clock,            \* the wall clock
    today,            \* the instant captured at the start of the run
    nsources,         \* size of the mapping get_all_sources() returned
    idx,              \* position of the loop in the registry
    source_count,
    all_movies,
    radar_events,
    fi,               \* position of the movie filter in all_movies
    kept,             \* movies that passed the filter so far
    movies_this_week,
    big_events_radar,
    \* history
    log,              \* calls made: init, sleep, fetch, each with its source
    outcome,          \* per source: "pending", "skipped", "ok", "failed"
    enabledFlag,      \* per source: what source.enabled was read as, or "unread"
    returned,         \* per source: the Event items its fetch() returned
    nowReads          \* number of datetime.now() calls

VARIABLES
    run,              \* 1 in the first call of fetch_all_events, 2 in the second
    first             \* what the first call met and returned

VARIABLES
    ev_pc,            \* "idle", "new", "built", "error"
    ev_args,          \* the arguments given to Event(...)
    ev,               \* the constructed Event
    ev_error,         \* "none", "TypeError", "ValueError"
    ev_clock,         \* the wall clock the window queries read
    ev_query          \* the last window query and its answer

VARIABLES
    plug_pc,          \* "idle", "fetching", "returned", "raised"
    plugin,           \* the plugin whose fetch() runs
    listings,         \* what the scraped page holds, one item per listing
    li,               \* position of the plugin's loop in listings
    events            \* the listings (by position) an Event was built from

VARIABLES
    run_pc,           \* "idle", "validate", "fetch", "notify", "returned", "exited", "raised"
    local_only,
    environ,          \* which of the environment variables are set
    notify_body,      \* whether the body of notify runs through or raises
    sync_result,      \* what sync_to_github would do: "True", "False", "raises"
    run_result,       \* "none", "True", "False"
    run_log           \* the calls run made, each with how it ended

VARIABLES
    fn,               \* the function that is called, "none" when there is none
    fn_pc,            \* where the call stands
    fn_args,          \* its arguments, and what the world answers to it
    fn_locals,        \* its local names
    fn_result         \* what it returned

fetchVars == <<pc, clock, today, nsources, idx, source_count, all_movies, radar_events,
               fi, kept, movies_this_week, big_events_radar, log, outcome, enabledFlag,
               returned, nowReads>>

twiceVars == <<run, first>>

eventVars == <<ev_pc, ev_args, ev, ev_error, ev_clock, ev_query>>

pluginVars == <<plug_pc, plugin, listings, li, events>>

runVars == <<run_pc, local_only, environ, notify_body, sync_result, run_result, run_log>>

callVars == <<fn, fn_pc, fn_args, fn_locals, fn_result>>

vars == <<fetchVars, twiceVars, eventVars, pluginVars, runVars, callVars>>

\* What a step of one part leaves alone.
outsideFetch == <<eventVars, pluginVars, runVars, callVars>>

outsideEvent == <<fetchVars, twiceVars, pluginVars, runVars, callVars>>

outsidePlugin == <<fetchVars, twiceVars, eventVars, runVars, callVars>>

outsideRun == <<fetchVars, twiceVars, eventVars, pluginVars, callVars>>

outsideCall == <<fetchVars, twiceVars, eventVars, pluginVars, runVars>>

\* Before any call of fetch_all_events has returned.
NoFirst ==
    [movies |-> <<>>, radar |-> <<>>, today |-> 0, nsources |-> 0,
     outcome |-> [i \in 1..NumSources |-> "pending"],
     enabledFlag |-> [i \in 1..NumSources |-> "unread"],
     returned |-> [i \in 1..NumSources |-> <<>>]]

\* No Event is being constructed.
EventIdle ==
    /\ ev_pc = "idle"
    /\ ev_args = <<>>
    /\ ev = <<>>
    /\ ev_error = "none"
    /\ ev_clock = 0
    /\ ev_query = <<>>

\* No plugin is fetching.
PluginIdle ==
    /\ plug_pc = "idle"
    /\ plugin = "none"
    /\ listings = <<>>
    /\ li = 1
    /\ events = <<>>

\* main.run is not running.
RunIdle ==
    /\ run_pc = "idle"
    /\ local_only = FALSE
    /\ environ = {}
    /\ notify_body = "ok"
    /\ sync_result = "True"
    /\ run_result = "none"
    /\ run_log = <<>>

\* No single function is being called.
CallIdle ==
    /\ fn = "none"
    /\ fn_pc = "idle"
    /\ fn_args = <<>>
    /\ fn_locals = <<>>
    /\ fn_result = "none"

FetchInit ==
    /\ pc = "start"
    /\ clock = 0
    /\ today = 0
    /\ nsources = 0
    /\ idx = 1
    /\ source_count = 0
    /\ all_movies = <<>>
    /\ radar_events = <<>>
    /\ fi = 1
    /\ kept = <<>>
    /\ movies_this_week = <<>>
    /\ big_events_radar = <<>>
    /\ log = <<>>
    /\ outcome = [i \in 1..NumSources |-> "pending"]
    /\ enabledFlag = [i \in 1..NumSources |-> "unread"]
    /\ returned = [i \in 1..NumSources |-> <<>>]
    /\ nowReads = 0
    /\ run = 1
    /\ first = NoFirst

Init == FetchInit /\ EventIdle /\ PluginIdle /\ RunIdle /\ CallIdle

\* Time passes while the run sleeps, fetches and filters.
Tick ==
    /\ pc \in {"loop", "filter"}
    /\ clock < MaxClock
    /\ clock' = clock + 1
    /\ UNCHANGED <<pc, today, nsources, idx, source_count, all_movies, radar_events,
                   fi, kept, movies_this_week, big_events_radar, log, outcome, enabledFlag,
                   returned, nowReads>>
    /\ UNCHANGED <<twiceVars, outsideFetch>>

\* Lines 49-61: capture today, read the registry, reset the accumulators.
Start ==
    /\ pc = "start"
    /\ today' = clock
    /\ nowReads' = nowReads + 1
    /\ \E n \in 0..NumSources : nsources' = n /\ pc' = IF n = 0 THEN "filter" ELSE "loop"
    /\ UNCHANGED <<clock, idx, source_count, all_movies, radar_events, fi, kept,
                   movies_this_week, big_events_radar, log, outcome, enabledFlag, returned>>
    /\ UNCHANGED <<twiceVars, outsideFetch>>

Call(op, i) == [op |-> op, src |-> i]

RECURSIVE TotalReturned(_, _)
TotalReturned(ret, n) == IF n = 0 THEN 0 ELSE Len(ret[n]) + TotalReturned(ret, n - 1)

FetchCalls_Retry(i) == <<Call("fetch", i), Call("fetch", i)>>

\* events = source.fetch(): one call, whatever it ends in.
FetchCalls(i) == <<Call("fetch", i)>>

\* The state of one loop body (lines 63-99) after it ran against behaviour b.
LoopBody(i, b, count, movies, radar) ==
    LET inited == <<Call("init", i)>>
        calls  == inited
                  \o (IF ShouldSleep(count) THEN <<Call("sleep", i)>> ELSE <<>>)
                  \o FetchCalls(i)
        failed(cs, ms, rs, ret, flag) ==
            LET h == ExceptBranch(count)
            IN  [calls |-> cs, movies |-> ms, radar |-> rs, returned |-> ret, flag |-> flag,
                 outcome |-> "failed", raised |-> h.raised, count |-> h.count]
    IN  IF b.init = "raises" \/ b.enabled = "raises"
        THEN failed(inited, movies, radar, <<>>, "unread")
        ELSE IF Skipped(b.enabled)
        THEN [calls |-> inited, movies |-> movies, radar |-> radar, returned |-> <<>>,
              flag |-> b.enabled,
              outcome |-> "skipped", raised |-> FALSE, count |-> CountAfterSkip(count)]
        ELSE IF b.fetch = "raises"
        THEN failed(calls, movies, radar, <<>>, b.enabled)
        ELSE IF b.fetch = "returns_junk"
        THEN failed(calls, CategorizeMovies(movies, b.events),
                    CategorizeRadar(radar, b.events), b.events, b.enabled)
        ELSE [calls |-> calls,
              movies |-> CategorizeMovies(movies, b.events),
              radar |-> CategorizeRadar(radar, b.events),
              returned |-> b.events, flag |-> b.enabled,
              outcome |-> "ok", raised |-> FALSE, count |-> CountAfterSuccess(count)]

\* One iteration of the for loop over sources.items().
Iterate ==
    /\ pc = "loop"
    /\ idx <= nsources
    /\ \E b \in Behaviour(idx, MaxEvents - TotalReturned(returned, NumSources)) :
         LET r == LoopBody(idx, b, source_count, all_movies, radar_events)
         IN  /\ log' = log \o r.calls
             /\ all_movies' = r.movies
             /\ radar_events' = r.radar
             /\ source_count' = r.count
             /\ outcome' = [outcome EXCEPT ![idx] = r.outcome]
             /\ enabledFlag' = [enabledFlag EXCEPT ![idx] = r.flag]
             /\ returned' = [returned EXCEPT ![idx] = r.returned]
             /\ pc' = IF r.raised THEN "raised"
                      ELSE IF idx = nsources THEN "filter" ELSE "loop"
    /\ idx' = idx + 1
    /\ UNCHANGED <<clock, today, nsources, fi, kept, movies_this_week,
                   big_events_radar, nowReads>>
    /\ UNCHANGED <<twiceVars, outsideFetch>>

\* Line 103: one is_within_next_days call of the generator fed to sorted().
FilterMovie ==
    /\ pc = "filter"
    /\ fi <= Len(all_movies)
    /\ kept' = IF is_within_next_days(all_movies[fi].date, MOVIES_LOOKAHEAD_DAYS, clock)
               THEN Append(kept, all_movies[fi]) ELSE kept
    /\ nowReads' = nowReads + 1
    /\ fi' = fi + 1
    /\ UNCHANGED <<pc, clock, today, nsources, idx, source_count, all_movies,
                   radar_events, movies_this_week, big_events_radar, log, outcome, enabledFlag,
                   returned>>
    /\ UNCHANGED <<twiceVars, outsideFetch>>

\* Lines 102-123: sort the kept movies, filter and sort the radar, return.
Finish ==
    /\ pc = "filter"
    /\ fi > Len(all_movies)
    /\ movies_this_week' = SortByDate(kept)
    /\ big_events_radar' = SortByDate(RadarFilter(radar_events, today))
    /\ pc' = "done"
    /\ UNCHANGED <<clock, today, nsources, idx, source_count, all_movies,
                   radar_events, fi, kept, log, outcome, enabledFlag, returned, nowReads>>
    /\ UNCHANGED <<twiceVars, outsideFetch>>

Next == Tick \/ Start \/ Iterate \/ FilterMovie \/ Finish

Spec == Init /\ [][Next]_vars

(* ---- fetch_all_events called a second time ----------------------------- *)
\* The first call has returned and fetch_all_events is called again, at the
\* reference time of the first call.  Every name the function uses is a
\* local (lines 49-61), so the second call starts from fresh accumulators.
Again ==
    /\ pc = "done"
    /\ run = 1
    /\ run' = 2
    /\ first' = [movies |-> movies_this_week, radar |-> big_events_radar,
                 today |-> today, nsources |-> nsources, outcome |-> outcome,
                 enabledFlag |-> enabledFlag, returned |-> returned]
    /\ pc' = "start"
    /\ clock' = today
    /\ today' = 0
    /\ nsources' = 0
    /\ idx' = 1
    /\ source_count' = 0
    /\ all_movies' = <<>>
    /\ radar_events' = <<>>
    /\ fi' = 1
    /\ kept' = <<>>
    /\ movies_this_week' = <<>>
    /\ big_events_radar' = <<>>
    /\ log' = <<>>
    /\ outcome' = [i \in 1..NumSources |-> "pending"]
    /\ enabledFlag' = [i \in 1..NumSources |-> "unread"]
    /\ returned' = [i \in 1..NumSources |-> <<>>]
    /\ nowReads' = 0
    /\ UNCHANGED outsideFetch

\* The second call reads the registry the first call read ...
StartAgain ==
    /\ Start
    /\ run = 2 => nsources' = first.nsources

\* ... and every source does what it did in the first call.
IterateAgain ==
    /\ Iterate
    /\ run = 2 =>
         /\ outcome'[idx] = first.outcome[idx]
         /\ enabledFlag'[idx] = first.enabledFlag[idx]
         /\ returned'[idx] = first.returned[idx]

NextTwice == Tick \/ StartAgain \/ IterateAgain \/ FilterMovie \/ Finish \/ Again

SpecTwice == Init /\ [][NextTwice]_vars

(* ---- Event construction (models.py) ----------------------------------- *)
\* A string is modelled by what the validation looks at: its length, for a
\* title whether it is whitespace only, for a URL the scheme it starts with.
\* The lengths lie around the limits.
Titles ==
    {[len |-> 0, blank |-> FALSE]}
    \cup {[len |-> n, blank |-> b] :
             n \in {1, _MAX_TITLE_LENGTH, _MAX_TITLE_LENGTH + 1}, b \in BOOLEAN}

Venues == {[len |-> n] : n \in {0, _MAX_VENUE_LENGTH, _MAX_VENUE_LENGTH + 1}}

Urls ==
    {[len |-> 0, scheme |-> "none"], [len |-> 8, scheme |-> "https://"]}
    \cup {[len |-> n, scheme |-> sch] :
             n \in {_MAX_URL_LENGTH, _MAX_URL_LENGTH + 1},
             sch \in {"http://", "https://", "ftp://"}}

\* The category argument: the annotation names EventCategory, the caller can
\* pass any string.
Categories == EventCategory \cup {"concert"}

\* Wall-clock readings: around the daylight-saving changes of BerlinDst and
\* around the end of a seven-day window.
Walls ==
    (-1..12) \cup ((timedelta(7) - 1)..(timedelta(7) + MaxClock + 1))

\* A date argument: a datetime with its wall-clock reading, its tzinfo and
\* its fold, or something that is not a datetime.  tz "naive" is tzinfo None,
\* "no_offset" a tzinfo whose utcoffset() returns None.
DateArgs ==
    {[kind |-> "other", wall |-> 0, tz |-> "naive", fold |-> 0]}
    \cup {[kind |-> "datetime", wall |-> w, tz |-> z, fold |-> 0] :
             w \in Walls, z \in {"naive", "no_offset", "UTC", "UTC+3"}}
    \cup {[kind |-> "datetime", wall |-> w, tz |-> "Berlin", fold |-> f] :
             w \in Walls, f \in {0, 1}}

EventArgs ==
    [title : Titles, date : DateArgs, venue : Venues, url : Urls, category : Categories]

\* BERLIN_TZ: summer time holds from UTC tick 4 up to UTC tick 8; the zone
\* is one tick ahead of UTC in winter and two in summer.
BerlinDst(utc) == 4 <= utc /\ utc < 8

BerlinOffsetAtUtc(utc) == IF BerlinDst(utc) THEN 2 ELSE 1

\* The offset of a wall-clock reading labelled with BERLIN_TZ: a reading
\* that occurs twice is told apart by fold, a reading that is skipped takes
\* the offset before the change for fold 0 and the one after it for fold 1.
BerlinOffsetAtWall(wall, fold) ==
    LET winter == BerlinOffsetAtUtc(wall - 1) = 1
        summer == BerlinOffsetAtUtc(wall - 2) = 2
    IN  IF winter /\ summer THEN (IF fold = 0 THEN 2 ELSE 1)
        ELSE IF winter THEN 1
        ELSE IF summer THEN 2
        ELSE (IF fold = 0 THEN 1 ELSE 2)

\* datetime.utcoffset() of an aware datetime.
utcoffset(dt) ==
    CASE dt.tz = "UTC" -> 0
      [] dt.tz = "UTC+3" -> 3
      [] dt.tz = "Berlin" -> BerlinOffsetAtWall(dt.wall, dt.fold)

\* BERLIN_TZ.fromutc: the second of two equal wall-clock readings has fold 1.
fromutc(utc) ==
    [kind |-> "datetime", wall |-> utc + BerlinOffsetAtUtc(utc), tz |-> "Berlin",
     fold |-> IF BerlinOffsetAtUtc(utc - 1) = BerlinOffsetAtUtc(utc) + 1 THEN 1 ELSE 0]

\* date.replace(tzinfo=BERLIN_TZ)
replace_tzinfo(dt) == [dt EXCEPT !.tz = "Berlin"]

astimezone_Relabel(dt) == [dt EXCEPT !.tz = "Berlin"]

\* date.astimezone(BERLIN_TZ); a datetime that already carries BERLIN_TZ is
\* returned as it is.
astimezone(dt) ==
    IF dt.tz = "Berlin" THEN dt ELSE fromutc(dt.wall - utcoffset(dt))

IsNaive(dt) == dt.tz \in {"naive", "no_offset"}

NormalizeDate(dt) == IF IsNaive(dt) THEN replace_tzinfo(dt) ELSE astimezone(dt)

TitleEmpty(title) == title.len = 0 \/ title.blank

TitleTooLong_AtLimit(title) == title.len >= _MAX_TITLE_LENGTH

TitleTooLong(title) == title.len > _MAX_TITLE_LENGTH

VenueTooLong(venue) == venue.len > _MAX_VENUE_LENGTH

UrlTooLong(url) == url.len > _MAX_URL_LENGTH

UrlSchemeOk(url) == url.scheme \in {"http://", "https://"}

\* Event.__post_init__: the error it raises, if any, and the Event it leaves.
__post_init__(args) ==
    IF args.date.kind # "datetime"
    THEN [error |-> "TypeError", event |-> args]
    ELSE LET self == [args EXCEPT !.date = NormalizeDate(args.date)]
             invalid ==
                IF TitleEmpty(self.title) THEN TRUE
                ELSE IF TitleTooLong(self.title) THEN TRUE
                ELSE IF VenueTooLong(self.venue) THEN TRUE
                ELSE IF self.url.len > 0
                     THEN (IF UrlTooLong(self.url) THEN TRUE
                           ELSE ~UrlSchemeOk(self.url))
                     ELSE FALSE
         IN  [error |-> IF invalid THEN "ValueError" ELSE "none", event |-> self]

\* The days arguments of the window queries.
QueryDays == {-1, 0, 1, 7}

NoQuery == [method |-> "none", days |-> 0, now |-> 0, result |-> FALSE]

EventInit ==
    /\ ev_pc = "new"
    /\ ev_args \in EventArgs
    /\ ev = <<>>
    /\ ev_error = "none"
    /\ ev_clock = 0
    /\ ev_query = NoQuery
    /\ FetchInit
    /\ PluginIdle
    /\ RunIdle
    /\ CallIdle

\* Event(title=..., date=..., venue=..., url=..., category=...)
Construct ==
    /\ ev_pc = "new"
    /\ LET r == __post_init__(ev_args)
       IN  /\ ev_error' = r.error
           /\ ev' = IF r.error = "none" THEN r.event ELSE <<>>
           /\ ev_pc' = IF r.error = "none" THEN "built" ELSE "error"
    /\ UNCHANGED <<ev_args, ev_clock, ev_query>>
    /\ UNCHANGED outsideEvent

\* Time passes between construction and the queries.
EventTick ==
    /\ ev_pc = "built"
    /\ ev_clock < MaxClock
    /\ ev_clock' = ev_clock + 1
    /\ UNCHANGED <<ev_pc, ev_args, ev, ev_error, ev_query>>
    /\ UNCHANGED outsideEvent

\* event.is_within_next_days(days)
QueryWithinNextDays ==
    /\ ev_pc = "built"
    /\ \E days \in QueryDays :
         ev_query' = [method |-> "is_within_next_days", days |-> days, now |-> ev_clock,
                      result |-> is_within_next_days(ev.date.wall, days, ev_clock)]
    /\ UNCHANGED <<ev_pc, ev_args, ev, ev_error, ev_clock>>
    /\ UNCHANGED outsideEvent

\* event.is_this_week()
QueryThisWeek ==
    /\ ev_pc = "built"
    /\ ev_query' = [method |-> "is_this_week", days |-> 7, now |-> ev_clock,
                    result |-> is_this_week(ev.date.wall, ev_clock)]
    /\ UNCHANGED <<ev_pc, ev_args, ev, ev_error, ev_clock>>
    /\ UNCHANGED outsideEvent

EventNext == Construct \/ EventTick \/ QueryWithinNextDays \/ QueryThisWeek

EventSpec == EventInit /\ [][EventNext]_vars

(* ---- the per-listing loop of the source plugins ------------------------ *)
\* What the scraped page holds for one listing: data an Event can be built
\* from ("valid"), data Event(...) rejects with a validation error
\* ("invalid"), or data the plugin's own parsing gives up on before it
\* constructs an Event ("unparsed").
ListingKinds == {"valid", "invalid", "unparsed"}

\* try: ... Event(...) ... except Exception: skip the listing
Guarded(kind) == IF kind = "valid" THEN "event" ELSE "skip"

\* Event(...) with no try around it, here or in the loop that calls it.
Unguarded(kind) ==
    IF kind = "valid" THEN "event"
    ELSE IF kind = "unparsed" THEN "skip"
    ELSE "raise"

\* What each plugin does with one listing.
ApollokinoSource(kind) == Guarded(kind)

BroncosSource(kind) == Guarded(kind)

KulturpalastLindenSource(kind) == Guarded(kind)

ErhardtCafeSource(kind) == Guarded(kind)

FaustSource(kind) == Guarded(kind)

GlockseeSource(kind) == Guarded(kind)

PunkrockKonzerteSource(kind) == Guarded(kind)

WeltspieleSource(kind) == Unguarded(kind)

Plugins ==
    {"ApollokinoSource", "BroncosSource", "KulturpalastLindenSource", "ErhardtCafeSource",
     "FaustSource", "GlockseeSource", "PunkrockKonzerteSource", "WeltspieleSource"}

ParseListing(p, kind) ==
    CASE p = "ApollokinoSource" -> ApollokinoSource(kind)
      [] p = "BroncosSource" -> BroncosSource(kind)
      [] p = "KulturpalastLindenSource" -> KulturpalastLindenSource(kind)
      [] p = "ErhardtCafeSource" -> ErhardtCafeSource(kind)
      [] p = "FaustSource" -> FaustSource(kind)
      [] p = "GlockseeSource" -> GlockseeSource(kind)
      [] p = "PunkrockKonzerteSource" -> PunkrockKonzerteSource(kind)
      [] p = "WeltspieleSource" -> WeltspieleSource(kind)

\* fetch() of one plugin has downloaded its page; the page holds fewer
\* listings than the plugin's max_events.
PluginInit ==
    /\ plug_pc = "fetching"
    /\ plugin \in Plugins
    /\ listings \in SeqsUpTo(ListingKinds, MaxListings)
    /\ li = 1
    /\ events = <<>>
    /\ FetchInit
    /\ EventIdle
    /\ RunIdle
    /\ CallIdle

\* One pass of the plugin's loop over the listings.
ParseNext ==
    /\ plug_pc = "fetching"
    /\ li <= Len(listings)
    /\ LET r == ParseListing(plugin, listings[li])
       IN  /\ events' = IF r = "event" THEN Append(events, li) ELSE events
           /\ plug_pc' = IF r = "raise" THEN "raised" ELSE "fetching"
    /\ li' = li + 1
    /\ UNCHANGED <<plugin, listings>>
    /\ UNCHANGED outsidePlugin

\* return events
PluginReturn ==
    /\ plug_pc = "fetching"
    /\ li > Len(listings)
    /\ plug_pc' = "returned"
    /\ UNCHANGED <<plugin, listings, li, events>>
    /\ UNCHANGED outsidePlugin

PluginNext == ParseNext \/ PluginReturn

PluginSpec == PluginInit /\ [][PluginNext]_vars

(* ---- the workflow of main.run ------------------------------------------ *)
\* The environment variables the workflow reads; environ holds those that
\* are set to a non-empty value.
EnvNames == {"TELEGRAM_BOT_TOKEN", "TELEGRAM_CHAT_ID", "GITHUB_TOKEN", "GITHUB_REPO"}

\* _validate_environment(local_only=...): returns, or ends the process
\* through sys.exit(1).
_validate_environment(lo, env) ==
    IF lo THEN "returns"
    ELSE IF {"TELEGRAM_BOT_TOKEN", "TELEGRAM_CHAT_ID"} \subseteq env THEN "returns"
    ELSE "exits"

should_sync_TokenOnly(env) == "GITHUB_TOKEN" \in env

should_sync(env) == {"GITHUB_TOKEN", "GITHUB_REPO"} \subseteq env

\* sync_to_github: if not token or not repo: raise ValueError(msg)
sync_to_github_ValueError(env) == "GITHUB_TOKEN" \notin env \/ "GITHUB_REPO" \notin env

\* def notify(events_data: EventsData) -> bool
notify_parameters == <<"events_data">>

\* notify(events_data, local_only=local_only)
notify_call == [positional |-> 1, keywords |-> {"local_only"}]

\* Python binds a call to a signature without defaults when the positional
\* arguments fit, every keyword names a parameter still unbound, and no
\* parameter stays unbound; otherwise the call raises TypeError.
Binds(call, parameters) ==
    /\ call.positional <= Len(parameters)
    /\ \A k \in call.keywords :
         \E j \in (call.positional + 1)..Len(parameters) : parameters[j] = k
    /\ \A j \in (call.positional + 1)..Len(parameters) : parameters[j] \in call.keywords

\* The body of notify: it returns False when anything in it raises.
notify(body) == IF body = "raises" THEN "False" ELSE "True"

\* How the call on line 125 ends.
CallNotify(call, body) ==
    IF Binds(call, notify_parameters) THEN notify(body) ELSE "raises"

RunCall(op, out) == [op |-> op, out |-> out]

RunExcept_Propagates(calls) == [pc |-> "raised", result |-> "none", calls |-> calls]

\* except Exception: logger.exception(...); return False
RunExcept(calls) == [pc |-> "returned", result |-> "False", calls |-> calls]

\* Lines 127-141, entered with what the notify call returned or raised.
AfterNotify(notified, lo, env, synced) ==
    LET n == <<RunCall("notify", notified)>>
    IN  IF notified = "raises" THEN RunExcept(n)
        ELSE IF notified = "False"
        THEN [pc |-> "returned", result |-> "False", calls |-> n]
        ELSE IF ~lo /\ should_sync(env)
        THEN IF synced = "raises"
             THEN RunExcept(n \o <<RunCall("sync", synced)>>)
             ELSE [pc |-> "returned", result |-> "True",
                   calls |-> n \o <<RunCall("sync", synced)>>]
        ELSE [pc |-> "returned", result |-> "True", calls |-> n]

\* run(local_only=...) is called in some environment.
RunInit ==
    /\ run_pc = "validate"
    /\ local_only \in BOOLEAN
    /\ environ \in SUBSET EnvNames
    /\ notify_body \in {"ok", "raises"}
    /\ sync_result \in {"True", "False", "raises"}
    /\ run_result = "none"
    /\ run_log = <<>>
    /\ FetchInit
    /\ EventIdle
    /\ PluginIdle
    /\ CallIdle

\* Line 106, before the try block.
ValidateEnvironment ==
    /\ run_pc = "validate"
    /\ LET v == _validate_environment(local_only, environ)
       IN  /\ run_pc' = IF v = "exits" THEN "exited" ELSE "fetch"
           /\ run_log' = Append(run_log, RunCall("validate", v))
    /\ UNCHANGED <<local_only, environ, notify_body, sync_result, run_result>>
    /\ UNCHANGED outsideRun

\* Lines 113-121: fetch_all_events() returns the two-key mapping, or raises
\* (get_all_sources() is called outside its try block).
FetchAllEvents ==
    /\ run_pc = "fetch"
    /\ \E out \in {"returns", "raises"} :
         LET calls == Append(run_log, RunCall("fetch", out))
             r == IF out = "raises" THEN RunExcept(calls)
                  ELSE [pc |-> "notify", result |-> "none", calls |-> calls]
         IN  /\ run_pc' = r.pc
             /\ run_result' = r.result
             /\ run_log' = r.calls
    /\ UNCHANGED <<local_only, environ, notify_body, sync_result>>
    /\ UNCHANGED outsideRun

\* Lines 125-145: the notify call and everything after it.
NotifyAndSync ==
    /\ run_pc = "notify"
    /\ LET r == AfterNotify(CallNotify(notify_call, notify_body), local_only, environ,
                            sync_result)
       IN  /\ run_pc' = r.pc
           /\ run_result' = r.result
           /\ run_log' = run_log \o r.calls
    /\ UNCHANGED <<local_only, environ, notify_body, sync_result>>
    /\ UNCHANGED outsideRun

RunNext == ValidateEnvironment \/ FetchAllEvents \/ NotifyAndSync

RunSpec == RunInit /\ [][RunNext]_vars

(* ---- one call of notify (notifier.py) ---------------------------------- *)
\* The parts that rest while a single function is called.
OthersIdle == FetchInit /\ EventIdle /\ PluginIdle /\ RunIdle

\* What a call of notify can meet: format_message and export_all_formats
\* return or raise, the directory and the two files of save_to_file can be
\* written or give an OSError, json.dumps succeeds or raises TypeError on a
\* metadata value it cannot serialise.
NotifyWorld ==
    [format_message : {"returns", "raises"},
     mkdir : {"ok", "OSError"},
     write_message : {"ok", "OSError"},
     dumps : {"ok", "TypeError"},
     write_json : {"ok", "OSError"},
     export_all_formats : {"returns", "raises"}]

\* save_to_file: the files it wrote and whether an exception left it.  An
\* OSError is caught and logged, anything else goes on to the caller.
save_to_file(world) ==
    IF world.mkdir = "OSError"
    THEN [raised |-> FALSE, written |-> {}]
    ELSE IF world.write_message = "OSError"
    THEN [raised |-> FALSE, written |-> {}]
    ELSE IF world.dumps = "TypeError"
    THEN [raised |-> TRUE, written |-> {"latest_message.txt"}]
    ELSE IF world.write_json = "OSError"
    THEN [raised |-> FALSE, written |-> {"latest_message.txt"}]
    ELSE [raised |-> FALSE, written |-> {"latest_message.txt", "events.json"}]

NotifyInit ==
    /\ fn = "notify"
    /\ fn_pc = "format_message"
    /\ fn_args \in NotifyWorld
    /\ fn_locals = [written |-> {}]
    /\ fn_result = "none"
    /\ OthersIdle

\* message = format_message(events_data)
NotifyFormat ==
    /\ fn = "notify"
    /\ fn_pc = "format_message"
    /\ IF fn_args.format_message = "raises"
       THEN fn_pc' = "returned" /\ fn_result' = notify("raises")
       ELSE fn_pc' = "save_to_file" /\ fn_result' = fn_result
    /\ UNCHANGED <<fn, fn_args, fn_locals>>
    /\ UNCHANGED outsideCall

\* save_to_file(message, events_data)
NotifySave ==
    /\ fn = "notify"
    /\ fn_pc = "save_to_file"
    /\ LET saved == save_to_file(fn_args)
       IN  /\ fn_locals' = [fn_locals EXCEPT !.written = saved.written]
           /\ IF saved.raised
              THEN fn_pc' = "returned" /\ fn_result' = notify("raises")
              ELSE fn_pc' = "save_all_formats" /\ fn_result' = fn_result
    /\ UNCHANGED <<fn, fn_args>>
    /\ UNCHANGED outsideCall

\* output_paths = save_all_formats(events_data), the log lines, the return.
\* export_all_formats writes its own events.json among its files.
NotifyExport ==
    /\ fn = "notify"
    /\ fn_pc = "save_all_formats"
    /\ IF fn_args.export_all_formats = "raises"
       THEN fn_result' = notify("raises") /\ fn_locals' = fn_locals
       ELSE /\ fn_result' = notify("ok")
            /\ fn_locals' = [fn_locals EXCEPT !.written = @ \cup {"events.json"}]
    /\ fn_pc' = "returned"
    /\ UNCHANGED <<fn, fn_args>>
    /\ UNCHANGED outsideCall

NotifyNext == NotifyFormat \/ NotifySave \/ NotifyExport

NotifySpec == NotifyInit /\ [][NotifyNext]_vars

(* ---- the max_events limit of the sources ------------------------------- *)
\* Sources that stop their loop over the items once the limit is reached.
BreakSources == {"BroncosSource", "KulturpalastLindenSource", "WeltspieleSource"}

\* Sources that collect, sort and then cut the list.
SliceSources == {"ErhardtCafeSource", "FaustSource", "GlockseeSource"}

max_events(source) ==
    CASE source = "BroncosSource" -> BroncosSource_max_events
      [] source = "KulturpalastLindenSource" -> KulturpalastLindenSource_max_events
      [] source = "WeltspieleSource" -> WeltspieleSource_max_events
      [] source = "ErhardtCafeSource" -> ErhardtCafeSource_max_events
      [] source = "FaustSource" -> FaustSource_max_events
      [] source = "GlockseeSource" -> GlockseeSource_max_events

LimitReached_Late(found, limit) == limit # 0 /\ Len(found) > limit

\* if self.max_events and len(events) >= self.max_events
LimitReached(found, limit) == limit # 0 /\ Len(found) >= limit

\* if self.max_events: events = events[: self.max_events]
Slice(found, limit) ==
    IF limit # 0
    THEN SubSeq(found, 1, IF Len(found) < limit THEN Len(found) ELSE limit)
    ELSE found

\* The events a source found are numbered in the order it found them.
FirstEvents(n) == [k \in 1..n |-> k]

\* A break source meets a page with so many items that parse to an event and
\* so many that do not, in any order; a slice source has collected so many
\* events when it comes to cut the list.
LimitInit ==
    /\ fn \in BreakSources \cup SliceSources
    /\ IF fn \in BreakSources
       THEN /\ fn_pc = "loop"
            /\ fn_args \in [valid : 0..(max_events(fn) + PageSlack), invalid : 0..MaxInvalid]
            /\ fn_locals = [events |-> <<>>, valid_left |-> fn_args.valid,
                            invalid_left |-> fn_args.invalid]
       ELSE /\ fn_pc = "sorted"
            /\ fn_args \in [valid : 0..(max_events(fn) + PageSlack), invalid : {0}]
            /\ fn_locals = [events |-> FirstEvents(fn_args.valid), valid_left |-> 0,
                            invalid_left |-> 0]
    /\ fn_result = "none"
    /\ OthersIdle

\* The next item parses to an event: it is appended, and the loop breaks
\* when the limit is reached.
LimitValid ==
    /\ fn \in BreakSources
    /\ fn_pc = "loop"
    /\ fn_locals.valid_left > 0
    /\ LET found == Append(fn_locals.events, Len(fn_locals.events) + 1)
       IN  /\ fn_locals' = [fn_locals EXCEPT !.events = found, !.valid_left = @ - 1]
           /\ IF LimitReached(found, max_events(fn))
              THEN fn_pc' = "returned" /\ fn_result' = found
              ELSE fn_pc' = "loop" /\ fn_result' = fn_result
    /\ UNCHANGED <<fn, fn_args>>
    /\ UNCHANGED outsideCall

\* The next item does not parse to an event.
LimitInvalid ==
    /\ fn \in BreakSources
    /\ fn_pc = "loop"
    /\ fn_locals.invalid_left > 0
    /\ fn_locals' = [fn_locals EXCEPT !.invalid_left = @ - 1]
    /\ UNCHANGED <<fn, fn_pc, fn_args, fn_result>>
    /\ UNCHANGED outsideCall

\* The items are used up: return events.
LimitExhausted ==
    /\ fn \in BreakSources
    /\ fn_pc = "loop"
    /\ fn_locals.valid_left = 0
    /\ fn_locals.invalid_left = 0
    /\ fn_pc' = "returned"
    /\ fn_result' = fn_locals.events
    /\ UNCHANGED <<fn, fn_args, fn_locals>>
    /\ UNCHANGED outsideCall

\* The list is sorted; cut it and return it.
LimitSlice ==
    /\ fn \in SliceSources
    /\ fn_pc = "sorted"
    /\ LET cut == Slice(fn_locals.events, max_events(fn))
       IN  /\ fn_locals' = [fn_locals EXCEPT !.events = cut]
           /\ fn_result' = cut
    /\ fn_pc' = "returned"
    /\ UNCHANGED <<fn, fn_args>>
    /\ UNCHANGED outsideCall

LimitNext == LimitValid \/ LimitInvalid \/ LimitExhausted \/ LimitSlice

LimitSpec == LimitInit /\ [][LimitNext]_vars

(* ---- the source registry ----------------------------------------------- *)
\* The registry module is not part of the sources at hand; it is modelled
\* from its specified contract: register(key) fails with a configuration
\* error on a duplicate key, fatal at load time, and get_all() returns the
\* full mapping.
RegistryKeys == {"broncos", "faust", "weltspiele"}

PluginClasses == {"BroncosSource", "FaustSource"}

EmptyRegistry == [key \in {} |-> "none"]

WithEntry(registry, key, cls) ==
    [k \in DOMAIN registry \cup {key} |-> IF k = key THEN cls ELSE registry[k]]

register_source_Overwrites(registry, key, cls) ==
    [error |-> "none", registry |-> WithEntry(registry, key, cls)]

register_source(registry, key, cls) ==
    IF key \in DOMAIN registry
    THEN [error |-> "ConfigurationError", registry |-> registry]
    ELSE [error |-> "none", registry |-> WithEntry(registry, key, cls)]

get_all_sources(registry) == registry

RegistryInit ==
    /\ fn = "register_source"
    /\ fn_pc = "loading"
    /\ fn_args = <<>>
    /\ fn_locals = [registry |-> EmptyRegistry, first |-> EmptyRegistry, calls |-> 0]
    /\ fn_result = "none"
    /\ OthersIdle

\* A plugin module is loaded and registers its class.  `first` remembers the
\* class that was registered first under each key.
RegisterSource ==
    /\ fn = "register_source"
    /\ fn_pc = "loading"
    /\ fn_locals.calls < MaxRegistrations
    /\ \E key \in RegistryKeys, cls \in PluginClasses :
          LET registered == register_source(fn_locals.registry, key, cls)
          IN  /\ fn_args' = [key |-> key, cls |-> cls]
              /\ fn_locals' = [registry |-> registered.registry,
                               first |-> IF key \in DOMAIN fn_locals.first
                                         THEN fn_locals.first
                                         ELSE WithEntry(fn_locals.first, key, cls),
                               calls |-> fn_locals.calls + 1]
              /\ fn_result' = registered.error
              /\ fn_pc' = IF registered.error = "none" THEN "loading" ELSE "failed"
    /\ UNCHANGED fn
    /\ UNCHANGED outsideCall

\* The plugins are loaded; the orchestrator asks for the mapping.
GetAllSources ==
    /\ fn = "register_source"
    /\ fn_pc = "loading"
    /\ fn_pc' = "returned"
    /\ fn_result' = get_all_sources(fn_locals.registry)
    /\ UNCHANGED <<fn, fn_args, fn_locals>>
    /\ UNCHANGED outsideCall

RegistryNext == RegisterSource \/ GetAllSources

RegistrySpec == RegistryInit /\ [][RegistryNext]_vars

(* ---- sync_to_github (github_sync.py) ----------------------------------- *)
\* The contents a web_events.json can have: bytes that are not JSON, a JSON
\* list, or a JSON object whose "meta" is absent, a string, or an object
\* that may hold "updatedAt" (0: it does not).  `events` stands for the rest
\* of the content.
Documents ==
    {[kind |-> "text", meta |-> "absent", updatedAt |-> 0, events |-> 1],
     [kind |-> "list", meta |-> "absent", updatedAt |-> 0, events |-> 1],
     [kind |-> "object", meta |-> "string", updatedAt |-> 0, events |-> 1]}
    \cup [kind : {"object"}, meta : {"absent"}, updatedAt : {0}, events : 1..2]
    \cup [kind : {"object"}, meta : {"object"}, updatedAt : 0..MaxStamp, events : 1..2]

\* The file in the repository; sha 0 when there is none.
NoRemote == [sha |-> 0, doc |-> [kind |-> "text", meta |-> "absent", updatedAt |-> 0, events |-> 1]]

\* base64 text: the bytes it stands for, whether newlines were inserted into
\* it, whether it can be decoded at all.
b64encode(raw) == [data |-> raw, newlines |-> FALSE, valid |-> TRUE]

\* validate=False: characters outside the alphabet are discarded.
b64decode(content) == content.data

_normalize_events_json_KeepsUpdatedAt(raw) ==
    IF raw.kind = "text" THEN <<>> ELSE <<raw>>

\* None (the empty tuple) for bytes that are not JSON, else the canonical
\* dump of the data with meta.updatedAt popped when meta is an object.
_normalize_events_json(raw) ==
    IF raw.kind = "text" THEN <<>>
    ELSE IF raw.kind = "object" /\ raw.meta = "object"
    THEN <<[raw EXCEPT !.updatedAt = 0]>>
    ELSE <<raw>>

\* What the GET of the contents API can answer: no answer, a status other
\* than 200, or, for a file that exists, 200 with a body that holds the sha
\* or not and the content (newlines inserted) or not, decodable or not.
Responses(remote) ==
    [status : {"RequestError", "404"}, sha : {0}, content : {<<>>}]
    \cup IF remote.sha = 0 THEN {}
         ELSE [status : {"200"}, sha : {0, remote.sha},
               content : {<<>>} \cup {<<[data |-> remote.doc, newlines |-> TRUE, valid |-> v]>> :
                                         v \in BOOLEAN}]

_get_existing_file(response) ==
    IF response.status = "RequestError" THEN [sha |-> 0, raw |-> <<>>]
    ELSE IF response.status # "200" THEN [sha |-> 0, raw |-> <<>>]
    ELSE IF response.sha = 0 \/ response.content = <<>>
    THEN [sha |-> response.sha, raw |-> <<>>]
    ELSE IF ~response.content[1].valid THEN [sha |-> response.sha, raw |-> <<>>]
    ELSE [sha |-> response.sha, raw |-> <<b64decode(response.content[1])>>]

\* The contents API takes a PUT whose sha names the file as it is (none for
\* a file that does not exist) and answers 409/422 otherwise; any request
\* can fail on the network or with an error status.
PutOutcomes(remote, payload) ==
    {"RequestError", "HTTPStatusError"}
    \cup IF payload.sha = remote.sha THEN {"ok"} ELSE {}

Request(method, payload) == [method |-> method, payload |-> payload]

\* Lines 129-194 for a local file that exists: the requests made and the
\* value returned, given the answer to the GET and how a PUT would end.
sync_to_github(content, response, put) ==
    LET content_base64 == b64encode(content)
        existing == _get_existing_file(response)
        unchanged ==
            /\ existing.raw # <<>>
            /\ LET existing_norm == _normalize_events_json(existing.raw[1])
                   local_norm == _normalize_events_json(content)
               IN  existing_norm # <<>> /\ local_norm # <<>> /\ existing_norm = local_norm
        payload == [content |-> content_base64, sha |-> existing.sha]
    IN  IF unchanged
        THEN [result |-> "True", requests |-> <<Request("GET", <<>>)>>]
        ELSE [result |-> IF put = "ok" THEN "True" ELSE "False",
              requests |-> <<Request("GET", <<>>), Request("PUT", <<payload>>)>>]

\* The local file is missing (the empty tuple) or holds a document.
LocalFiles == {<<>>} \cup {<<d>> : d \in Documents}

NoResponse == [status |-> "none", sha |-> 0, content |-> <<>>]

SyncInit ==
    /\ fn = "sync_to_github"
    /\ fn_pc = "called"
    /\ fn_args \in [local_file : LocalFiles]
    /\ fn_locals \in [remote : {NoRemote} \cup [sha : {1}, doc : Documents],
                       response : {NoResponse},
                       requests : {<<>>},
                       calls : {1},
                       previous : {[local_file |-> <<>>, result |-> "none"]}]
    /\ fn_result = "none"
    /\ OthersIdle

\* One call of sync_to_github with GITHUB_TOKEN and GITHUB_REPO set.
SyncToGithub ==
    /\ fn = "sync_to_github"
    /\ fn_pc = "called"
    /\ IF fn_args.local_file = <<>>
       THEN /\ fn_result' = "False"
            /\ fn_locals' = fn_locals
       ELSE \E response \in Responses(fn_locals.remote) :
            \E put \in PutOutcomes(fn_locals.remote,
                                    [sha |-> _get_existing_file(response).sha]) :
              LET r == sync_to_github(fn_args.local_file[1], response, put)
                  committed == Len(r.requests) = 2 /\ put = "ok"
              IN  \* without a PUT its outcome plays no part: one choice stands for all
                  /\ Len(r.requests) = 1 => put = "RequestError"
                  /\ fn_result' = r.result
                  /\ fn_locals' =
                       [fn_locals EXCEPT
                          !.response = response,
                          !.requests = r.requests,
                          !.remote = IF committed
                                     THEN [sha |-> @.sha + 1,
                                           doc |-> b64decode(r.requests[2].payload[1].content)]
                                     ELSE @]
    /\ fn_pc' = "returned"
    /\ UNCHANGED <<fn, fn_args>>
    /\ UNCHANGED outsideCall

\* The next run has written a new web_events.json and syncs again.
SyncAgain ==
    /\ fn = "sync_to_github"
    /\ fn_pc = "returned"
    /\ fn_locals.calls < MaxSyncs
    /\ fn_args' \in [local_file : LocalFiles]
    /\ fn_locals' = [fn_locals EXCEPT
                       !.response = NoResponse,
                       !.requests = <<>>,
                       !.calls = @ + 1,
                       !.previous = [local_file |-> fn_args.local_file, result |-> fn_result]]
    /\ fn_pc' = "called"
    /\ fn_result' = "none"
    /\ UNCHANGED fn
    /\ UNCHANGED outsideCall

SyncNext == SyncToGithub \/ SyncAgain

SyncSpec == SyncInit /\ [][SyncNext]_vars

(* ---- KulturpalastLindenSource._sanitize_ics ---------------------------- *)
\* The values a DTSTART or DTEND line can carry:
\*   DATE         ;VALUE=DATE:YYYYMMDD
\*   DATE-TIME    :YYYYMMDDTHHMMSS, also with an hour that no day has
\*   DATE-TIME-Z  :YYYYMMDDTHHMMSSZ
\*   TEXT         anything _parse_ics_datetime gives None for
IcsValues ==
    [form : {"DATE"}, day : 1..MaxDay, hour : {0}]
    \cup [form : {"DATE-TIME", "DATE-TIME-Z"}, day : 1..MaxDay, hour : {2, 22}]
    \cup {[form |-> "DATE-TIME", day |-> 1, hour |-> 25],
          [form |-> "TEXT", day |-> 0, hour |-> 0]}

NoIcsValue == [form |-> "none", day |-> 0, hour |-> 0]

IcsLine(name, value) == [name |-> name, value |-> value]

\* datetime(year, month, day, hour, minute, second) raises ValueError for an
\* hour outside 0..23; this call is outside the try blocks.
_parse_ics_datetime(line) ==
    IF line.value.form = "DATE"
    THEN [raised |-> FALSE, dt |-> <<[day |-> line.value.day, hour |-> 0]>>]
    ELSE IF line.value.form \in {"DATE-TIME", "DATE-TIME-Z"}
    THEN IF line.value.hour > 23
         THEN [raised |-> TRUE, dt |-> <<>>]
         ELSE [raised |-> FALSE, dt |-> <<[day |-> line.value.day, hour |-> line.value.hour]>>]
    ELSE [raised |-> FALSE, dt |-> <<>>]

\* The prefix of the line is kept; the value is written as %Y%m%d under
\* ;VALUE=DATE and as %Y%m%dT%H%M%S otherwise.
_format_ics_datetime(line, dt) ==
    IF line.value.form = "DATE"
    THEN IcsLine(line.name, [form |-> "DATE", day |-> dt.day, hour |-> 0])
    ELSE IcsLine(line.name, [form |-> "DATE-TIME", day |-> dt.day, hour |-> dt.hour])

DtBefore(a, b) == a.day < b.day \/ (a.day = b.day /\ a.hour < b.hour)

\* The scan of _fix_event_block: the last DTSTART and DTEND of the block
\* win; a parse that raises ends the scan.
RECURSIVE ScanEventBlock(_, _, _)
ScanEventBlock(lines, at, found) ==
    IF at > Len(lines) \/ found.raised THEN found
    ELSE LET line == lines[at]
             parsed == _parse_ics_datetime(line)
         IN  ScanEventBlock(lines, at + 1,
                 IF line.name = "DTSTART"
                 THEN [found EXCEPT !.raised = parsed.raised, !.dtstart_val = parsed.dt]
                 ELSE IF line.name = "DTEND"
                 THEN [found EXCEPT !.raised = parsed.raised, !.dtend_val = parsed.dt,
                                    !.dtend_idx = at]
                 ELSE found)

\* _fix_event_block: the lines to emit, None (kept = FALSE) for a block to
\* drop, or the exception of a parse.
_fix_event_block(lines) ==
    LET found == ScanEventBlock(lines, 1,
                     [raised |-> FALSE, dtstart_val |-> <<>>, dtend_val |-> <<>>, dtend_idx |-> 0])
    IN  IF found.raised THEN [raised |-> TRUE, kept |-> FALSE, lines |-> <<>>]
        ELSE IF /\ found.dtstart_val # <<>>
                /\ found.dtend_val # <<>>
                /\ DtBefore(found.dtend_val[1], found.dtstart_val[1])
        THEN IF found.dtend_val[1].day = found.dtstart_val[1].day
             THEN [raised |-> FALSE, kept |-> TRUE,
                   lines |-> [lines EXCEPT ![found.dtend_idx] =
                                _format_ics_datetime(lines[found.dtend_idx],
                                    [found.dtend_val[1] EXCEPT !.day = @ + 1])]]
             ELSE [raised |-> FALSE, kept |-> FALSE, lines |-> <<>>]
        ELSE [raised |-> FALSE, kept |-> TRUE, lines |-> lines]

\* An iCalendar text is put together from pieces: a line outside any event,
\* a complete event with or without DTSTART and DTEND, an event that is
\* never closed.
IcsSegments ==
    {[kind |-> "outside", dtstart |-> <<>>, dtend |-> <<>>],
     [kind |-> "unclosed", dtstart |-> <<>>, dtend |-> <<>>]}
    \cup [kind : {"event"},
          dtstart : {<<>>} \cup {<<v>> : v \in IcsValues},
          dtend : {<<>>} \cup {<<v>> : v \in IcsValues}]

SegmentLines(segment) ==
    IF segment.kind = "outside" THEN <<IcsLine("VERSION", NoIcsValue)>>
    ELSE IF segment.kind = "unclosed"
    THEN <<IcsLine("BEGIN:VEVENT", NoIcsValue), IcsLine("SUMMARY", NoIcsValue)>>
    ELSE <<IcsLine("BEGIN:VEVENT", NoIcsValue)>>
         \o (IF segment.dtstart = <<>> THEN <<>> ELSE <<IcsLine("DTSTART", segment.dtstart[1])>>)
         \o (IF segment.dtend = <<>> THEN <<>> ELSE <<IcsLine("DTEND", segment.dtend[1])>>)
         \o <<IcsLine("SUMMARY", NoIcsValue), IcsLine("END:VEVENT", NoIcsValue)>>

RECURSIVE IcsText(_)
IcsText(segments) ==
    IF segments = <<>> THEN <<>>
    ELSE SegmentLines(Head(segments)) \o IcsText(Tail(segments))

SanitizeInit ==
    /\ fn = "_sanitize_ics"
    /\ fn_pc = "loop"
    /\ \E segments \in SeqsUpTo(IcsSegments, MaxSegments) :
          fn_args = [segments |-> segments, lines |-> IcsText(segments)]
    /\ fn_locals = [i |-> 1, output |-> <<>>, in_event |-> FALSE, event_lines |-> <<>>]
    /\ fn_result = "none"
    /\ OthersIdle

\* One turn of `for line in lines`.
SanitizeLine ==
    /\ fn = "_sanitize_ics"
    /\ fn_pc = "loop"
    /\ fn_locals.i <= Len(fn_args.lines)
    /\ LET line == fn_args.lines[fn_locals.i]
           next == [fn_locals EXCEPT !.i = @ + 1]
       IN  IF line.name = "BEGIN:VEVENT"
           THEN /\ fn_locals' = [next EXCEPT !.in_event = TRUE, !.event_lines = <<line>>]
                /\ UNCHANGED <<fn_pc, fn_result>>
           ELSE IF fn_locals.in_event
           THEN LET block == Append(fn_locals.event_lines, line)
                    fixed == _fix_event_block(block)
                IN  IF line.name # "END:VEVENT"
                    THEN /\ fn_locals' = [next EXCEPT !.event_lines = block]
                         /\ UNCHANGED <<fn_pc, fn_result>>
                    ELSE IF fixed.raised
                    THEN /\ fn_locals' = [next EXCEPT !.event_lines = block]
                         /\ fn_pc' = "raised"
                         /\ fn_result' = <<IcsLine("ValueError", NoIcsValue)>>
                    ELSE /\ fn_locals' = [next EXCEPT
                                            !.event_lines = block,
                                            !.in_event = FALSE,
                                            !.output = IF fixed.kept THEN @ \o fixed.lines ELSE @]
                         /\ UNCHANGED <<fn_pc, fn_result>>
           ELSE /\ fn_locals' = [next EXCEPT !.output = Append(@, line)]
                /\ UNCHANGED <<fn_pc, fn_result>>
    /\ UNCHANGED <<fn, fn_args>>
    /\ UNCHANGED outsideCall

\* return "\n".join(output); a block that is still open is ignored.
SanitizeReturn ==
    /\ fn = "_sanitize_ics"
    /\ fn_pc = "loop"
    /\ fn_locals.i > Len(fn_args.lines)
    /\ fn_pc' = "returned"
    /\ fn_result' = fn_locals.output
    /\ UNCHANGED <<fn, fn_args, fn_locals>>
    /\ UNCHANGED outsideCall

SanitizeNext == SanitizeLine \/ SanitizeReturn

SanitizeSpec == SanitizeInit /\ [][SanitizeNext]_vars

(* ---- ErhardtCafeSource._parse_wix_event -------------------------------- *)
\* scheduling.config.startDate: absent, text that is no date, or a UTC tick
\* written as ...T17:00:00.000Z, as ...T17:00:00Z or as ...T17:00:00+00:00.
StartDates ==
    [form : {"absent", "text"}, utc : {0}]
    \cup [form : {".000Z", "Z", "+00:00"}, utc : 0..MaxStart]

WixEvents == [title : Titles, startDate : StartDates]

\* _parse_iso_date: the suffix .000Z or Z is cut off, the rest goes through
\* datetime.fromisoformat, and one hour is added.  None is the empty tuple.
_parse_iso_date(date_str) ==
    IF date_str.form \in {".000Z", "Z"}
    THEN <<[kind |-> "datetime", wall |-> date_str.utc + 1, tz |-> "naive", fold |-> 0]>>
    ELSE IF date_str.form = "+00:00"
    THEN <<[kind |-> "datetime", wall |-> date_str.utc + 1, tz |-> "UTC", fold |-> 0]>>
    ELSE <<>>

\* event_date < datetime.now(BERLIN_TZ): ordering a naive and an aware
\* datetime raises TypeError, two aware ones compare as instants.
IsPast(event_date, now) ==
    IF IsNaive(event_date) THEN "TypeError"
    ELSE IF event_date.wall - utcoffset(event_date) < now.wall - utcoffset(now)
    THEN "True"
    ELSE "False"

\* The Event arguments of lines 294-306.
WixEventArgs(title, event_date) ==
    [title |-> title, date |-> event_date, venue |-> [len |-> 12],
     url |-> [len |-> 8, scheme |-> "https://"], category |-> "radar"]

\* _parse_wix_event: the Event, or None (the empty tuple); every exception
\* inside it is caught and gives None.
_parse_wix_event(event_data, now) ==
    IF event_data.title.len = 0 THEN <<>>
    ELSE IF event_data.startDate.form = "absent" THEN <<>>
    ELSE LET event_date == _parse_iso_date(event_data.startDate)
         IN  IF event_date = <<>> THEN <<>>
             ELSE IF IsPast(event_date[1], now) # "False" THEN <<>>
             ELSE LET made == __post_init__(WixEventArgs(event_data.title, event_date[1]))
                  IN  IF made.error # "none" THEN <<>> ELSE <<made.event>>

WixInit ==
    /\ fn = "_parse_wix_event"
    /\ fn_pc = "called"
    /\ fn_args \in [event_data : WixEvents]
    /\ fn_locals \in [now : {fromutc(utc) : utc \in 1..(MaxStart - 1)}]
    /\ fn_result = "none"
    /\ OthersIdle

ParseWixEvent ==
    /\ fn = "_parse_wix_event"
    /\ fn_pc = "called"
    /\ fn_pc' = "returned"
    /\ fn_result' = _parse_wix_event(fn_args.event_data, fn_locals.now)
    /\ UNCHANGED <<fn, fn_args, fn_locals>>
    /\ UNCHANGED outsideCall

WixNext == ParseWixEvent

WixSpec == WixInit /\ [][WixNext]_vars

(* ---- GlockseeSource._fetch_events -------------------------------------- *)
\* `now` of a call; a result carries the tick of its datetime field, or -1
\* when it has none.
GlockseeNow == 1

\* The result lists a page can hold: none, one past or one dateless result,
\* future results in and out of date order, mixed with past ones.
PageResults ==
    {<<>>, <<0>>, <<-1>>, <<1>>, <<2, 1>>, <<2, 0, 1>>}

\* What the request of one page ends in: an exception (of client.get,
\* raise_for_status or response.json), or the data of the page.
ApiPages ==
    {[outcome |-> "raises", results |-> <<>>, next_page |-> FALSE]}
    \cup [outcome : {"ok"}, results : PageResults, next_page : BOOLEAN]

\* Past the last page the API answers with an empty page or with an error.
PastTheEnd ==
    {[outcome |-> "raises", results |-> <<>>, next_page |-> FALSE],
     [outcome |-> "ok", results |-> <<>>, next_page |-> FALSE]}

\* _parse_event(result, now): None (the empty tuple) for a result without
\* datetime or in the past, else the Event; `page` and `k` say where the
\* result stood.
_parse_event(result, page, k, now) ==
    IF result = -1 THEN <<>>
    ELSE IF result < now THEN <<>>
    ELSE <<[date |-> result, page |-> page, k |-> k]>>

RECURSIVE ParseResults(_, _, _, _)
ParseResults(results, page, k, now) ==
    IF k > Len(results) THEN <<>>
    ELSE _parse_event(results[k], page, k, now) \o ParseResults(results, page, k + 1, now)

HasNextPage_Always(data) == TRUE

\* data.get("next_page")
HasNextPage(data) == data.next_page

GlockseeInit ==
    /\ fn = "_fetch_events"
    /\ fn_pc = "loop"
    /\ fn_args \in [pages : SeqsUpTo(ApiPages, MaxPages), max_events : 0..MaxLimit]
    /\ fn_locals = [events |-> <<>>, page |-> 1, now |-> GlockseeNow, requested |-> <<>>]
    /\ fn_result = "none"
    /\ OthersIdle

\* One turn of `while True`: the page is requested and handled; the loop
\* goes on with the next page or is left.
GlockseePage ==
    /\ fn = "_fetch_events"
    /\ fn_pc = "loop"
    /\ \E data \in IF fn_locals.page <= Len(fn_args.pages)
                    THEN {fn_args.pages[fn_locals.page]}
                    ELSE PastTheEnd :
          LET asked == [fn_locals EXCEPT !.requested = Append(@, fn_locals.page)]
              found == fn_locals.events
                       \o ParseResults(data.results, fn_locals.page, 1, fn_locals.now)
          IN  IF data.outcome = "raises"
              THEN fn_locals' = asked /\ fn_pc' = "sort"
              ELSE IF data.results = <<>>
              THEN fn_locals' = asked /\ fn_pc' = "sort"
              ELSE IF LimitReached(found, fn_args.max_events)
              THEN fn_locals' = [asked EXCEPT !.events = found] /\ fn_pc' = "sort"
              ELSE IF ~HasNextPage(data)
              THEN fn_locals' = [asked EXCEPT !.events = found] /\ fn_pc' = "sort"
              ELSE fn_locals' = [asked EXCEPT !.events = found, !.page = @ + 1]
                   /\ fn_pc' = "loop"
    /\ UNCHANGED <<fn, fn_args, fn_result>>
    /\ UNCHANGED outsideCall

\* events.sort(key=lambda e: e.date); the cut to max_events; return events.
GlockseeReturn ==
    /\ fn = "_fetch_events"
    /\ fn_pc = "sort"
    /\ LET sorted == Slice(SortByDate(fn_locals.events), fn_args.max_events)
       IN  /\ fn_locals' = [fn_locals EXCEPT !.events = sorted]
           /\ fn_result' = sorted
    /\ fn_pc' = "returned"
    /\ UNCHANGED <<fn, fn_args>>
    /\ UNCHANGED outsideCall

GlockseeNext == GlockseePage \/ GlockseeReturn

\* The loop is one thread of control: it takes its next step whenever it
\* has one.
GlockseeSpec == GlockseeInit /\ [][GlockseeNext]_vars /\ WF_vars(GlockseeNext)

(* ---- sanitize_url (kinoweek/sanitize.py) ------------------------------- *)
\* A scraped URL: how it starts, its length with the whitespace around it,
\* and that whitespace.  "None" stands for the argument None, "none" for
\* text without a scheme.
ScrapedUrls ==
    {[scheme |-> "None", len |-> 0, pad |-> 0], [scheme |-> "none", len |-> 0, pad |-> 0]}
    \cup [scheme : {"http://", "https://", "HTTP://", "Https://", "ftp://",
                    "javascript:", "JavaScript:", "none"},
          len : {12, MAX_URL_LENGTH - 1, MAX_URL_LENGTH, MAX_URL_LENGTH + 1,
                 MAX_URL_LENGTH + MaxPad, MAX_URL_LENGTH + MaxPad + 1},
          pad : 0..MaxPad]

\* url.lower(), as far as the start of the text goes
lower(scheme) ==
    CASE scheme = "HTTP://" -> "http://"
      [] scheme = "Https://" -> "https://"
      [] scheme = "JavaScript:" -> "javascript:"
      [] OTHER -> scheme

EmptyUrl == [len |-> 0, scheme |-> "none"]

\* sanitize_url: the empty string, or the stripped URL as it was written.
sanitize_url(url) ==
    IF url.scheme = "None" \/ url.len = 0 THEN EmptyUrl
    ELSE LET stripped == [len |-> url.len - url.pad, scheme |-> url.scheme]
             url_lower == lower(stripped.scheme)
         IN  IF stripped.len > MAX_URL_LENGTH THEN EmptyUrl
             ELSE IF url_lower \in {"javascript:", "data:", "vbscript:", "file:", "about:", "blob:"}
             THEN EmptyUrl
             ELSE IF url_lower \notin {"http://", "https://"} THEN EmptyUrl
             ELSE stripped

\* An Event whose other fields are valid, with the given url.
EventWithUrl(url) ==
    [title |-> [len |-> 1, blank |-> FALSE],
     date |-> [kind |-> "datetime", wall |-> 0, tz |-> "Berlin", fold |-> 0],
     venue |-> [len |-> 0], url |-> url, category |-> "radar"]

UrlInit ==
    /\ fn = "sanitize_url"
    /\ fn_pc = "called"
    /\ fn_args \in [url : ScrapedUrls]
    /\ fn_locals = [url |-> EmptyUrl]
    /\ fn_result = "none"
    /\ OthersIdle

SanitizeUrl ==
    /\ fn = "sanitize_url"
    /\ fn_pc = "called"
    /\ fn_pc' = "sanitized"
    /\ fn_locals' = [url |-> sanitize_url(fn_args.url)]
    /\ UNCHANGED <<fn, fn_args, fn_result>>
    /\ UNCHANGED outsideCall

\* An Event is constructed with the sanitized URL.
ConstructWithUrl ==
    /\ fn = "sanitize_url"
    /\ fn_pc = "sanitized"
    /\ fn_pc' = "constructed"
    /\ fn_result' = __post_init__(EventWithUrl(fn_locals.url)).error
    /\ UNCHANGED <<fn, fn_args, fn_locals>>
    /\ UNCHANGED outsideCall

UrlNext == SanitizeUrl \/ ConstructWithUrl

UrlSpec == UrlInit /\ [][UrlNext]_vars

(* ---- helpers of the properties ---------------------------------------- *)
Elems(seq) == {seq[k] : k \in DOMAIN seq}

Count(seq, e) == Cardinality({k \in DOMAIN seq : seq[k] = e})

AllEvents == UNION {Event(i) : i \in 1..NumSources}

Window == timedelta(MOVIES_LOOKAHEAD_DAYS)

Handled == {i \in 1..NumSources : outcome[i] # "pending"}

\* Both are JSON and equal once meta.updatedAt is removed from both.
SameButUpdatedAt(a, b) ==
    LET without(d) == IF d.kind = "object" /\ d.meta = "object"
                      THEN [kind |-> d.kind, meta |-> d.meta, updatedAt |-> 0, events |-> d.events]
                      ELSE d
    IN  a.kind # "text" /\ b.kind # "text" /\ without(a) = without(b)

\* What a calendar value says: its day and hour, nothing for text.
IcsInstant(value) ==
    IF value.form \in {"DATE", "DATE-TIME", "DATE-TIME-Z"}
    THEN <<[day |-> value.day, hour |-> value.hour]>>
    ELSE <<>>

\* The lines the sanitiser is to emit for one piece of the text.
SanitizedSegment(segment) ==
    IF segment.kind = "outside" THEN SegmentLines(segment)
    ELSE IF segment.kind = "unclosed" THEN <<>>
    ELSE LET s == IF segment.dtstart = <<>> THEN <<>> ELSE IcsInstant(segment.dtstart[1])
             e == IF segment.dtend = <<>> THEN <<>> ELSE IcsInstant(segment.dtend[1])
         IN  IF s # <<>> /\ e # <<>> /\ DtBefore(e[1], s[1])
             THEN IF e[1].day = s[1].day
                  THEN SegmentLines([segment EXCEPT !.dtend[1].day = @ + 1])
                  ELSE <<>>
             ELSE SegmentLines(segment)

\* Lines that follow an event that is never closed belong to it, up to the
\* next BEGIN:VEVENT.
RECURSIVE SanitizedText(_, _)
SanitizedText(segments, open) ==
    IF segments = <<>> THEN <<>>
    ELSE LET segment == Head(segments)
         IN  IF segment.kind = "outside" /\ open
             THEN SanitizedText(Tail(segments), open)
             ELSE SanitizedSegment(segment)
                  \o SanitizedText(Tail(segments), segment.kind = "unclosed")

\* The future events of the pages 1..n of the API, in page order.
RECURSIVE FutureEvents(_, _)
FutureEvents(pages, n) ==
    IF n = 0 THEN <<>>
    ELSE FutureEvents(pages, n - 1)
         \o (IF n <= Len(pages) /\ pages[n].outcome = "ok"
             THEN SelectSeq([k \in DOMAIN pages[n].results |->
                                [date |-> pages[n].results[k], page |-> n, k |-> k]],
                            LAMBDA e : e.date >= GlockseeNow)
             ELSE <<>>)

\* Page n is one the pagination is to stop at.
StopsAt(pages, n, limit) ==
    \/ n > Len(pages)
    \/ pages[n].outcome = "raises"
    \/ pages[n].results = <<>>
    \/ ~pages[n].next_page
    \/ limit # 0 /\ Len(FutureEvents(pages, n)) >= limit

IsSortedByDate(seq) == \A k \in 1..(Len(seq) - 1) : seq[k].date <= seq[k + 1].date

(* ---- C1 ---------------------------------------------------------------- *)
\* C1: whatever sources raise, the run never ends in a propagated exception
\* and the loop always has a next step to take; the returned buckets
\* hold every event of every source that did not fail: each non-movie event
\* dated at or after today, and each movie event that lies in the lookahead
\* window for the whole run.
C1_FailureIsolated ==
    /\ pc # "raised"
    /\ pc = "start" => ENABLED Start
    /\ pc = "loop" => ENABLED Iterate
    /\ pc = "done" =>
         \A i \in 1..nsources : outcome[i] = "ok" =>
           \A e \in Elems(returned[i]) :
             /\ (e.category = "movie" /\ clock <= e.date /\ e.date <= today + Window)
                  => Count(movies_this_week, e) = Count(returned[i], e)
             /\ (e.category # "movie" /\ e.date >= today)
                  => Count(big_events_radar, e) = Count(returned[i], e)

\* Source 1 returns one movie in the window, the fetch of source 2 raises.
C1_Witness ==
    /\ pc = "done"
    /\ nsources = 2
    /\ outcome[1] = "ok"
    /\ outcome[2] = "failed"
    /\ returned[2] = <<>>
    /\ Call("fetch", 2) \in Elems(log)
    /\ Len(movies_this_week) = 1
    /\ movies_this_week = returned[1]
    /\ big_events_radar = <<>>

(* ---- C2 ---------------------------------------------------------------- *)
\* C2: no event of a source that ended in the except branch is in
\* movies_this_week or in big_events_radar.
C2_FailedContributesNothing ==
    pc = "done" =>
      \A e \in Elems(movies_this_week) \cup Elems(big_events_radar) :
        outcome[e.venue] # "failed"

(* ---- C3 ---------------------------------------------------------------- *)
\* C3: between any two fetch() calls of a run there is a sleep, and it
\* directly precedes the later fetch.
C3_SleepBetweenFetches ==
    \A j, k \in DOMAIN log :
      (j < k /\ log[j].op = "fetch" /\ log[k].op = "fetch")
        => /\ \E m \in (j + 1)..(k - 1) : log[m].op = "sleep"
           /\ log[k - 1] = Call("sleep", log[k].src)

\* Two fetches, the earlier of which raised.
C3_Witness ==
    \E j, k \in DOMAIN log :
      /\ j < k
      /\ log[j].op = "fetch"
      /\ log[k].op = "fetch"
      /\ outcome[log[j].src] = "failed"
      /\ returned[log[j].src] = <<>>

(* ---- C4 ---------------------------------------------------------------- *)
\* C4: a source whose enabled flag was read as false is not fetched, is not
\* slept for, leaves source_count as it was (the counter equals the number
\* of sources that were attempted) and has no event in any accumulator or
\* bucket.
C4_DisabledSkipped ==
    /\ \A i \in 1..NumSources : enabledFlag[i] = "false" =>
         /\ Call("fetch", i) \notin Elems(log)
         /\ Call("sleep", i) \notin Elems(log)
         /\ \A e \in Elems(all_movies) \cup Elems(radar_events)
                  \cup Elems(movies_this_week) \cup Elems(big_events_radar) :
              e.venue # i
    /\ source_count = Cardinality({i \in Handled : enabledFlag[i] # "false"})

\* A disabled source first, then a fetched one that did not have to sleep.
C4_Witness ==
    /\ pc = "done"
    /\ enabledFlag[1] = "false"
    /\ outcome[2] = "ok"
    /\ log = <<Call("init", 1), Call("init", 2), Call("fetch", 2)>>
    /\ source_count = 1

(* ---- C5 ---------------------------------------------------------------- *)
\* C5 as stated: the constructor of a disabled plugin is never called.
C5_DisabledNeverInstantiated ==
    \A i \in 1..NumSources :
      enabledFlag[i] = "false" => Call("init", i) \notin Elems(log)

\* C5 amended: a disabled plugin is instantiated exactly once, because its
\* flag is read from the instance, and its fetch() is never called.
C5_DisabledInstantiatedNotFetched ==
    \A i \in 1..NumSources :
      enabledFlag[i] = "false" =>
        /\ Count(log, Call("init", i)) = 1
        /\ Count(log, Call("fetch", i)) = 0

\* A run that met a disabled plugin and returned.
C5_Witness ==
    /\ pc = "done"
    /\ \E i \in 1..nsources : enabledFlag[i] = "false" /\ outcome[i] = "skipped"
(* ---- C6 ---------------------------------------------------------------- *)
\* C6: of the movie events the sources that did not fail returned,
\* movies_this_week holds exactly those whose date d satisfies
\* today <= d <= today + lookahead, today being the reference time of the run.
C6_MovieWindowExact ==
    pc = "done" =>
      \A i \in 1..NumSources : outcome[i] = "ok" =>
        \A e \in Event(i) :
          Count(movies_this_week, e) =
            IF e.category = "movie" /\ today <= e.date /\ e.date <= today + Window
            THEN Count(returned[i], e)
            ELSE 0

(* ---- C7 ---------------------------------------------------------------- *)
\* C7: big_events_radar holds exactly the non-movie events of the sources
\* that did not fail whose date is at or after today, with no upper cutoff.
C7_RadarExact ==
    pc = "done" =>
      \A e \in AllEvents :
        Count(big_events_radar, e) =
          IF /\ outcome[e.venue] = "ok"
             /\ e.category # "movie"
             /\ e.date >= today
          THEN Count(returned[e.venue], e)
          ELSE 0

(* ---- C8 ---------------------------------------------------------------- *)
\* C8: the clock is read once per run and every window decision of the run
\* is taken against that one captured instant: an accumulated movie is in
\* movies_this_week exactly when it lies in the window that starts at today,
\* an accumulated radar event is in big_events_radar exactly when its date
\* is at or after today.
C8_ClockReadOnce ==
    pc = "done" =>
      /\ nowReads = 1
      /\ \A e \in Elems(all_movies) :
           e \in Elems(movies_this_week)
             <=> is_within_next_days(e.date, MOVIES_LOOKAHEAD_DAYS, today)
      /\ \A e \in Elems(radar_events) :
           e \in Elems(big_events_radar) <=> e.date >= today

(* ---- C9 ---------------------------------------------------------------- *)
\* C9: both returned lists are sorted ascending by date.
C9_Sorted ==
    pc = "done" => (IsSortedByDate(movies_this_week) /\ IsSortedByDate(big_events_radar))

\* Two sources delivered their movies latest first; the result has them
\* earliest first.
C9_Witness ==
    /\ pc = "done"
    /\ Len(all_movies) = 2
    /\ all_movies[1].date > all_movies[2].date
    /\ Len(movies_this_week) = 2
    /\ movies_this_week[1].date < movies_this_week[2].date

(* ---- C10 --------------------------------------------------------------- *)
\* C10: every event a successfully fetched source returned is in exactly one
\* accumulator, movie events in all_movies and culture and radar events in
\* radar_events; so movies_this_week holds only movie events,
\* big_events_radar holds no movie event and no event is in both.
C10_Partition ==
    /\ \A e \in Elems(all_movies) \cup Elems(movies_this_week) : e.category = "movie"
    /\ \A e \in Elems(radar_events) \cup Elems(big_events_radar) :
         e.category \in {"culture", "radar"}
    /\ Elems(movies_this_week) \cap Elems(big_events_radar) = {}
    /\ \A i \in 1..NumSources : outcome[i] = "ok" =>
         \A e \in Elems(returned[i]) :
           /\ Count(all_movies, e) + Count(radar_events, e) = Count(returned[i], e)
           /\ Count(all_movies, e) = IF e.category = "movie" THEN Count(returned[i], e) ELSE 0
    /\ \A e \in Elems(all_movies) \cup Elems(radar_events) :
         e \in Elems(returned[e.venue])

\* A culture event reached the radar bucket and a movie the movie bucket.
C10_Witness ==
    /\ pc = "done"
    /\ \E e \in Elems(big_events_radar) : e.category = "culture" /\ outcome[e.venue] = "ok"
    /\ \E e \in Elems(movies_this_week) : e.category = "movie" /\ outcome[e.venue] = "ok"

(* ---- C11 --------------------------------------------------------------- *)
\* C11: a second call of fetch_all_events over the same registry, whose
\* sources return what they returned before, at the same reference time,
\* returns the same movies_this_week and the same big_events_radar, element
\* for element.
C11_Idempotent ==
    (run = 2 /\ pc = "done") =>
      /\ today = first.today
      /\ movies_this_week = first.movies
      /\ big_events_radar = first.radar

(* ---- C12 --------------------------------------------------------------- *)
\* C12: the call always returns; and when the registry is empty, or every
\* source was skipped or failed, both returned lists are empty.
C12_EmptyWhenNoneSucceeds ==
    /\ pc # "raised"
    /\ pc = "done" =>
         ((\A i \in 1..nsources : outcome[i] \in {"skipped", "failed"})
            => (movies_this_week = <<>> /\ big_events_radar = <<>>))

(* ---- C13 --------------------------------------------------------------- *)
\* C13: constructing an Event fails exactly when the date is not a datetime,
\* or the title is empty or whitespace only or longer than 200 characters,
\* or the venue is longer than 100 characters, or the URL is non-empty and
\* longer than 500 characters or does not start with http:// or https://.
C13_ValidationExact ==
    ev_pc \in {"built", "error"} =>
      LET a == ev_args
          rejected ==
            \/ a.date.kind # "datetime"
            \/ a.title.len = 0
            \/ a.title.blank
            \/ a.title.len > 200
            \/ a.venue.len > 100
            \/ /\ a.url.len > 0
               /\ (a.url.len > 500 \/ a.url.scheme \notin {"http://", "https://"})
      IN  /\ (ev_pc = "error") <=> rejected
          /\ (ev_error # "none") <=> rejected

\* An Event with a title of 200, a venue of 100 and a URL of 500 characters
\* was constructed.
C13_Witness ==
    /\ ev_pc = "built"
    /\ ev.title.len = 200
    /\ ev.venue.len = 100
    /\ ev.url.len = 500

(* ---- C14 --------------------------------------------------------------- *)
\* C14: the date of a constructed Event carries the Berlin zone; a naive
\* input keeps its wall-clock reading, a zoned input keeps its instant.
C14_DateNormalized ==
    ev_pc = "built" =>
      LET given == ev_args.date
          instant(dt) ==
            dt.wall - (CASE dt.tz = "UTC" -> 0
                         [] dt.tz = "UTC+3" -> 3
                         [] dt.tz = "Berlin" -> BerlinOffsetAtWall(dt.wall, dt.fold))
      IN  /\ ev.date.tz = "Berlin"
          /\ given.tz \in {"naive", "no_offset"} => ev.date.wall = given.wall
          /\ given.tz \notin {"naive", "no_offset"} => instant(ev.date) = instant(given)

\* A UTC reading in summer time became the Berlin reading two ticks later.
C14_Witness ==
    /\ ev_pc = "built"
    /\ ev_args.date.tz = "UTC"
    /\ ev_args.date.wall = 5
    /\ ev.date.wall = 7
    /\ ev.date.tz = "Berlin"

(* ---- C15 --------------------------------------------------------------- *)
\* C15: is_within_next_days(n) answers FALSE for n < 0 and otherwise answers
\* whether now <= date <= now + n days, both ends included, now being the
\* clock at the call; is_this_week() answers as is_within_next_days(7).
C15_WindowQuery ==
    ev_query.method # "none" =>
      LET d == ev.date.wall
          now == ev_query.now
          n == IF ev_query.method = "is_this_week" THEN 7 ELSE ev_query.days
      IN  /\ now <= ev_clock
          /\ ev_query.result = (n >= 0 /\ now <= d /\ d <= now + n * TicksPerDay)

\* Asked after the clock had moved, an Event dated exactly one day after the
\* call is within the next day.
C15_Witness ==
    /\ ev_query.method = "is_within_next_days"
    /\ ev_query.days = 1
    /\ ev_query.now > 0
    /\ ev.date.wall = ev_query.now + TicksPerDay
    /\ ev_query.result

(* ---- C16 --------------------------------------------------------------- *)
\* C16: the category of every constructed Event is movie, culture or radar.
C16_CategoryClosed ==
    ev_pc = "built" => ev.category \in EventCategory

(* ---- C17 --------------------------------------------------------------- *)
\* C17: in every plugin a listing whose Event fails validation is skipped:
\* fetch() does not raise, and it returns the events of exactly the
\* listings an Event can be built from.
C17_ListingErrorIsolated ==
    /\ plug_pc # "raised"
    /\ plug_pc = "returned" =>
         Elems(events) = {k \in DOMAIN listings : listings[k] = "valid"}

(* ---- C18 --------------------------------------------------------------- *)
\* C18: the calls of a run are made source after source in registry order
\* (each call is for the source of the call before it or for a later one);
\* the fetch of a source is the last call made for it, so the next source is
\* touched only when that fetch has ended; no call is made twice (no
\* source is instantiated or fetched a second time), and fetch() is called
\* for a source exactly when it was instantiated and read as enabled.
C18_SequentialNoRetry ==
    /\ \A k \in 1..(Len(log) - 1) :
         /\ log[k].src <= log[k + 1].src
         /\ log[k].op = "fetch" => log[k].src < log[k + 1].src
    /\ LET made == Elems(log)
       IN  /\ Cardinality(made) = Len(log)
           /\ \A i \in 1..NumSources :
                (Call("fetch", i) \in made) <=> (enabledFlag[i] = "true")

\* The fetch of source 1 raised; source 2 was then fetched, once, after its
\* sleep, and the run returned.
C18_Witness ==
    /\ pc = "done"
    /\ outcome[1] = "failed"
    /\ outcome[2] = "ok"
    /\ log = <<Call("init", 1), Call("fetch", 1),
               Call("init", 2), Call("sleep", 2), Call("fetch", 2)>>

(* ---- C19 --------------------------------------------------------------- *)
\* C19: when fetch_all_events returned and the notifier saves the output
\* without error, run returns True, with local_only set or not and whatever
\* the GitHub sync step does short of raising.
C19_RunReturnsTrue ==
    (/\ run_pc = "returned"
     /\ RunCall("fetch", "returns") \in Elems(run_log)
     /\ notify_body = "ok"
     /\ sync_result # "raises")
      => run_result = "True"

(* ---- C20 --------------------------------------------------------------- *)
\* C20: once the environment validation has passed, run always has a next
\* step until it returns, it never lets an exception out, it returns True or
\* False, and it returns False when fetching, notifying or syncing raised or
\* when notify returned False; the lines after the notify call behave so
\* for every way the notify call can end.
C20_RunAlwaysReturnsBool ==
    /\ run_pc # "raised"
    /\ run_pc = "fetch" => ENABLED FetchAllEvents
    /\ run_pc = "notify" => ENABLED NotifyAndSync
    /\ run_pc = "returned" =>
         /\ run_result \in {"True", "False"}
         /\ RunCall("validate", "returns") \in Elems(run_log)
         /\ (\E c \in Elems(run_log) : c.out = "raises" \/ c = RunCall("notify", "False"))
              => run_result = "False"
    /\ \A notified \in {"True", "False", "raises"}, synced \in {"True", "False", "raises"} :
         LET r == AfterNotify(notified, local_only, environ, synced)
         IN  /\ r.pc = "returned"
             /\ r.result \in {"True", "False"}
             /\ (\E c \in Elems(r.calls) : c.out = "raises" \/ c = RunCall("notify", "False"))
                  => r.result = "False"

\* fetch_all_events raised inside the try block and run returned False.
C20_Witness ==
    /\ run_pc = "returned"
    /\ run_log = <<RunCall("validate", "returns"), RunCall("fetch", "raises")>>
    /\ run_result = "False"

(* ---- C21 --------------------------------------------------------------- *)
\* C21: notify returns True only when latest_message.txt and events.json
\* were written.
C21_TrueOnlyIfSaved ==
    (fn = "notify" /\ fn_pc = "returned" /\ fn_result = "True")
      => {"latest_message.txt", "events.json"} \subseteq fn_locals.written

(* ---- C22 --------------------------------------------------------------- *)
\* C22: the list a source with max_events returns is never longer than its
\* max_events (Broncos 40, Kulturpalast Linden 60, Weltspiele 30, Erhardt
\* 20, Faust 40, Glocksee 30), and Broncos returns exactly max_events events
\* when its page holds at least that many valid cards.
C22_MaxEventsRespected ==
    (fn \in BreakSources \cup SliceSources /\ fn_pc = "returned")
      => /\ Len(fn_result) <= max_events(fn)
         /\ fn_result = FirstEvents(Len(fn_result))
         /\ (fn = "BroncosSource" /\ fn_args.valid >= BroncosSource_max_events)
              => Len(fn_result) = BroncosSource_max_events
         /\ <<BroncosSource_max_events, KulturpalastLindenSource_max_events,
              WeltspieleSource_max_events, ErhardtCafeSource_max_events,
              FaustSource_max_events, GlockseeSource_max_events>>
              = <<40, 60, 30, 20, 40, 30>>

C22_Witness ==
    /\ fn = "BroncosSource"
    /\ fn_pc = "returned"
    /\ fn_args.valid > BroncosSource_max_events
    /\ fn_args.invalid > 0
    /\ Len(fn_result) = BroncosSource_max_events

(* ---- C23 --------------------------------------------------------------- *)
\* C23: registering under a key that is already registered fails with a
\* configuration error and leaves the entry as it was; the registry, and
\* what get_all returns, maps every registered key to the class that was
\* registered first under it.
C23_DuplicateKeyFails ==
    fn = "register_source"
      => /\ fn_locals.registry = fn_locals.first
         /\ fn_pc = "failed"
              => /\ fn_result = "ConfigurationError"
                 /\ fn_args.key \in DOMAIN fn_locals.first
                 /\ fn_locals.calls = Cardinality(DOMAIN fn_locals.first) + 1
         /\ fn_pc = "loading"
              => /\ fn_result = "none"
                 /\ fn_locals.calls = Cardinality(DOMAIN fn_locals.registry)
         /\ fn_pc = "returned" => fn_result = fn_locals.first

C23_Witness ==
    /\ fn = "register_source"
    /\ fn_pc = "failed"
    /\ fn_locals.calls = 3
    /\ fn_args.cls # fn_locals.registry[fn_args.key]

(* ---- C24 --------------------------------------------------------------- *)
\* C24: no sleep comes before the first fetch() call of a run, and a
\* finished run has slept once less than it has called fetch() (not at all
\* when it called no fetch()), also when an earlier source failed while it
\* was instantiated or its enabled flag was read.
C24_SleepsOneLessThanFetches ==
    LET sleeps == {j \in DOMAIN log : log[j].op = "sleep"}
        fetches == {j \in DOMAIN log : log[j].op = "fetch"}
    IN  /\ \A j \in sleeps : \E k \in fetches : k < j
        /\ pc = "done" =>
              Cardinality(sleeps) = IF fetches = {} THEN 0 ELSE Cardinality(fetches) - 1

(* ---- C25 --------------------------------------------------------------- *)
\* C25: run calls fetch, then notify, then the GitHub sync, in this order;
\* sync_to_github is called only when notify returned True, local_only is
\* false and should_sync() is true, and then it cannot raise its ValueError.
\* The lines after the notify call behave so for every way the notify call
\* can end.
C25_SyncOnlyAfterNotifyTrue ==
    LET rank(op) == CASE op = "validate" -> 0 [] op = "fetch" -> 1
                      [] op = "notify" -> 2 [] op = "sync" -> 3
        syncs(calls) == {k \in DOMAIN calls : calls[k].op = "sync"}
    IN  /\ \A j, k \in DOMAIN run_log : j < k => rank(run_log[j].op) < rank(run_log[k].op)
        /\ \A k \in DOMAIN run_log :
             /\ run_log[k].op = "notify" => RunCall("fetch", "returns") \in Elems(run_log)
             /\ run_log[k].op = "sync" =>
                   /\ RunCall("notify", "True") \in Elems(run_log)
                   /\ ~local_only
                   /\ should_sync(environ)
        /\ \A notified \in {"True", "False", "raises"}, synced \in {"True", "False", "raises"} :
             LET r == AfterNotify(notified, local_only, environ, synced)
             IN  /\ r.calls[1] = RunCall("notify", notified)
                 /\ syncs(r.calls) \subseteq {2}
                 /\ syncs(r.calls) # {}
                      <=> (notified = "True" /\ ~local_only
                           /\ "GITHUB_TOKEN" \in environ /\ "GITHUB_REPO" \in environ)
                 /\ syncs(r.calls) # {} => ~sync_to_github_ValueError(environ)

\* Outside local mode, with the GitHub variables set, the notify call did
\* not return True and run returned without calling sync_to_github.
C25_Witness ==
    /\ run_pc = "returned"
    /\ ~local_only
    /\ should_sync(environ)
    /\ run_log = <<RunCall("validate", "returns"), RunCall("fetch", "returns"),
                   RunCall("notify", "raises")>>

C27_SanitizeIcs ==
    fn = "_sanitize_ics"
      => /\ fn_pc # "raised"
         /\ fn_pc = "returned" => fn_result = SanitizedText(fn_args.segments, FALSE)

(* ---- C28 --------------------------------------------------------------- *)
\* C28: _parse_wix_event returns an Event for a record with a non-empty
\* title and a startDate in the form ...000Z or ...Z that lies in the
\* future.
C28_FutureWixEventParsed ==
    (/\ fn = "_parse_wix_event"
     /\ fn_pc = "returned"
     /\ ~TitleEmpty(fn_args.event_data.title)
     /\ ~TitleTooLong(fn_args.event_data.title)
     /\ fn_args.event_data.startDate.form \in {".000Z", "Z"}
     /\ fn_args.event_data.startDate.utc > fn_locals.now.wall - utcoffset(fn_locals.now))
      => fn_result # <<>>

(* ---- C29 --------------------------------------------------------------- *)
\* C29: _fetch_events requests the pages 1, 2, ... in order, stops at the
\* first page that is empty, has no next_page, cannot be fetched, or brings
\* the collected events to max_events, and returns the future events of the
\* pages it read, those of the pages before a failure included, sorted by
\* date and cut to max_events; and it does return, whatever the pages are.
C29_Safe ==
    fn = "_fetch_events"
      => LET n == Len(fn_locals.requested)
             pages == fn_args.pages
             limit == fn_args.max_events
         IN  /\ \A k \in 1..n : fn_locals.requested[k] = k
             /\ n <= Len(pages) + 1
             /\ \A k \in 1..(n - 1) : ~StopsAt(pages, k, limit)
             /\ fn_pc = "loop" => fn_locals.page = n + 1
             /\ fn_pc \in {"sort", "returned"} => n >= 1 /\ StopsAt(pages, n, limit)
             /\ fn_pc = "returned" =>
                  LET all == SortByDate(FutureEvents(pages, n))
                  IN  /\ IsSortedByDate(fn_result)
                      /\ fn_result = SubSeq(all, 1, Len(fn_result))
                      /\ Len(fn_result) = IF limit # 0 /\ Len(all) > limit
                                          THEN limit ELSE Len(all)

C29_FetchEventsTerminates == []C29_Safe /\ <>(fn_pc = "returned")

\* The second page could not be fetched; the events of the first page are
\* returned, sorted.
C29_Witness ==
    /\ fn = "_fetch_events"
    /\ fn_pc = "returned"
    /\ fn_locals.requested = <<1, 2>>
    /\ Len(fn_args.pages) = 2
    /\ fn_args.pages[2].outcome = "raises"
    /\ fn_args.pages[1].results = <<2, 1>>
    /\ Len(fn_result) = 2

(* ---- C30 --------------------------------------------------------------- *)
\* C30: what sanitize_url returns is empty or at most 500 characters long
\* with an http or https scheme, and an Event constructed with it passes the
\* URL validation.
C30_SanitizedUrlIsValid ==
    fn = "sanitize_url"
      => /\ fn_pc # "called" =>
              \/ fn_locals.url = EmptyUrl
              \/ /\ fn_locals.url.len <= 500
                 /\ lower(fn_locals.url.scheme) \in {"http://", "https://"}
         /\ fn_pc = "constructed" => fn_result = "none"

====
